---- MODULE Spec2Model ----
(***************************************************************************)
(* A model of the plate-appearance outcome pipeline of baseball_stats:     *)
(*   pa_data.py   event classifier and dataset loader                      *)
(*   pa_model.py  feature builder, trainer, rate aggregator, main()        *)
(*   sim_rates.py probability server (get_outcome_probs)                   *)
(*                                                                         *)
(* Strings that the code inspects character by character (the Statcast     *)
(* event, the raw ball/strike cells) are sequences of one-character        *)
(* strings; column names, labels and exception names are plain strings.    *)
(***************************************************************************)
EXTENDS Integers, Sequences, FiniteSets, TLC

VARIABLES
    event,    \* the argument handed to _event_to_outcome
    fetched,  \* what statcast() returns for the requested date range
    pas,      \* the plate-appearance DataFrame a caller holds
    files,    \* the persisted files beside the scripts, by name
    args,     \* the remaining arguments of the last call
    ret,      \* the outcome of the last call: what it returned or raised
    lib,      \* what the last call handed to the learning library
    opened    \* the files the last call opened

vars == <<event, fetched, pas, files, args, ret, lib, opened>>

-----------------------------------------------------------------------------
(* Bounds of the model.                                                    *)

\* An event string is the concatenation of at most MaxParts vocabulary parts.
MaxParts == 2
\* statcast() returns at most MaxRawRows pitches.
MaxRawRows == 2
\* A labelled DataFrame handed to the rate aggregator holds at most MaxRows rows.
MaxRows == 3
\* A training DataFrame is a pattern of at most MaxTrainRows rows, taken once
\* or repeated Copies times.
MaxTrainRows == 3
Copies == 4

-----------------------------------------------------------------------------
(* Characters and strings.                                                 *)

UpperCase == <<"A","B","C","D","E","F","G","H","I","J","K","L","M",
               "N","O","P","Q","R","S","T","U","V","W","X","Y","Z">>
LowerCase == <<"a","b","c","d","e","f","g","h","i","j","k","l","m",
               "n","o","p","q","r","s","t","u","v","w","x","y","z">>
Whitespace == {" ", "\t", "\n"}

\* str.lower() on one character
LowerChar(c) ==
    IF \E i \in 1..26 : UpperCase[i] = c
    THEN LowerCase[CHOOSE i \in 1..26 : UpperCase[i] = c]
    ELSE c

\* str.upper() on one character
UpperChar(c) ==
    IF \E i \in 1..26 : LowerCase[i] = c
    THEN UpperCase[CHOOSE i \in 1..26 : LowerCase[i] = c]
    ELSE c

\* str.lower()
Lower(s) == [i \in 1..Len(s) |-> LowerChar(s[i])]

\* str.upper()
Upper(s) == [i \in 1..Len(s) |-> UpperChar(s[i])]

\* str.strip(): drop the leading and the trailing whitespace
Strip(s) ==
    LET keep == {i \in 1..Len(s) : s[i] \notin Whitespace}
    IN  IF keep = {} THEN <<>>
        ELSE LET lo == CHOOSE i \in keep : \A j \in keep : i <= j
                 hi == CHOOSE i \in keep : \A j \in keep : j <= i
             IN  SubSeq(s, lo, hi)

\* The element of a one-element set: with a set {F(x) : x \in {e}} it names the
\* value of e once, as x, for the whole of F.
The(S) == CHOOSE x \in S : TRUE

\* Python's `sub in s`
Contains(s, sub) ==
    \E i \in 1..(Len(s) - Len(sub) + 1) : SubSeq(s, i, i + Len(sub) - 1) = sub

S_walk         == <<"w","a","l","k">>
S_hit_by_pitch == <<"h","i","t","_","b","y","_","p","i","t","c","h">>
S_single       == <<"s","i","n","g","l","e">>
S_double       == <<"d","o","u","b","l","e">>
S_triple       == <<"t","r","i","p","l","e">>
S_home_run     == <<"h","o","m","e","_","r","u","n">>
S_strikeout    == <<"s","t","r","i","k","e","o","u","t">>
S_double_play  == <<"d","o","u","b","l","e","_","p","l","a","y">>
S_triple_play  == <<"t","r","i","p","l","e","_","p","l","a","y">>
S_field_error  == <<"f","i","e","l","d","_","e","r","r","o","r">>
S_field_out    == <<"f","i","e","l","d","_","o","u","t">>
S_sac_fly      == <<"s","a","c","_","f","l","y">>
S_grounded_into == <<"g","r","o","u","n","d","e","d","_","i","n","t","o","_">>
S_strikeout_double_play == S_strikeout \o <<"_">> \o S_double_play
S_underscore   == <<"_">>
S_space        == <<" ">>

-----------------------------------------------------------------------------
(* pa_data.py: the outcome categories and the event classifier.            *)

OUTCOME_ORDER == <<"Walk", "HBP", "Single", "Double", "Triple", "HR", "Strikeout", "Out">>

Outcomes == {OUTCOME_ORDER[i] : i \in 1..Len(OUTCOME_ORDER)}

\* A cell holding a string, and the missing cell (None / NaN).
Str(s) == [isna |-> FALSE, s |-> s]
NA == [isna |-> TRUE, s |-> <<>>]

Return(op, v) == [op |-> op, kind |-> "return", val |-> v]
Raise(op, exc) == [op |-> op, kind |-> "raise", val |-> exc]
NoCall == [op |-> "none", kind |-> "none", val |-> "none"]

\* _event_to_outcome without its last line: a string that matches no rule falls
\* off the end of the function
EventToOutcome_NoDefault(ev) ==
    IF ev.isna THEN "Out"
    ELSE The({ IF e = S_walk THEN "Walk"
               ELSE IF e = S_hit_by_pitch THEN "HBP"
               ELSE IF e = S_single THEN "Single"
               ELSE IF Contains(e, S_double_play) \/ e = S_double_play THEN "Out"
               ELSE IF e = S_double THEN "Double"
               ELSE IF Contains(e, S_triple_play) \/ e = S_triple_play THEN "Out"
               ELSE IF e = S_triple THEN "Triple"
               ELSE IF e = S_home_run THEN "HR"
               ELSE IF Contains(e, S_strikeout) THEN "Strikeout"
               ELSE "None" : e \in {Strip(Lower(ev.s))} })

\* _event_to_outcome: the ordered rules, first match wins
EventToOutcome(ev) ==
    IF ev.isna THEN "Out"
    ELSE The({ IF e = S_walk THEN "Walk"
               ELSE IF e = S_hit_by_pitch THEN "HBP"
               ELSE IF e = S_single THEN "Single"
               ELSE IF Contains(e, S_double_play) \/ e = S_double_play THEN "Out"
               ELSE IF e = S_double THEN "Double"
               ELSE IF Contains(e, S_triple_play) \/ e = S_triple_play THEN "Out"
               ELSE IF e = S_triple THEN "Triple"
               ELSE IF e = S_home_run THEN "HR"
               ELSE IF Contains(e, S_strikeout) THEN "Strikeout"
               ELSE "Out" : e \in {Strip(Lower(ev.s))} })

-----------------------------------------------------------------------------
(* The event strings the classifier is run on.                             *)

Vocabulary ==
    { S_walk, S_hit_by_pitch, S_single, S_double, S_triple, S_home_run,
      S_strikeout, S_double_play, S_triple_play, S_field_error, S_field_out,
      S_sac_fly, S_grounded_into, S_underscore, S_space,
      Upper(S_walk), Upper(S_strikeout), Upper(S_double_play),
      <<"W","a","l","k">>, <<"H","o","m","e","_","R","u","n">>,
      S_strikeout_double_play,
      <<"s","t","r","i","k","e">>, <<"o","u","t">>, <<"\t">>, <<"x">> }

RECURSIVE Concats(_)
Concats(n) ==
    IF n = 0 THEN {<<>>}
    ELSE LET shorter == Concats(n - 1)
         IN  shorter \cup {s \o p : s \in shorter, p \in Vocabulary}

EventInputs(n) == {NA} \cup {Str(s) : s \in Concats(n)}

-----------------------------------------------------------------------------
(* DataFrames.  A frame is its set of columns and its rows; a row carries  *)
(* a cell for every column name the pipeline knows, and the cell of a      *)
(* column the frame does not have is that column's Absent value.           *)

ColumnNames == {"events", "balls", "strikes", "stand", "p_throws",
                "inning", "outs_when_up", "platoon_matchup", "outcome"}

\* Cells of the numeric columns as the source delivers them.
IntCell(k) == [t |-> "int", n |-> k, s |-> <<>>]
StrCell(s) == [t |-> "str", n |-> 0, s |-> s]
NaCell == [t |-> "na", n |-> 0, s |-> <<>>]
\* Values of a float column: a finite number, NaN or infinity.
InfCell == [t |-> "inf", n |-> 0, s |-> <<>>]

AbsentRow ==
    [events |-> NA, balls |-> NaCell, strikes |-> NaCell, stand |-> NA,
     p_throws |-> NA, inning |-> NaCell, outs_when_up |-> NaCell,
     platoon_matchup |-> "", outcome |-> ""]

\* pd.DataFrame()
EmptyFrame == [cols |-> {}, rows |-> <<>>]

\* DataFrame.empty: no rows, or no columns
IsEmpty(df) == df.cols = {} \/ Len(df.rows) = 0

Digits == <<"0","1","2","3","4","5","6","7","8","9">>
IsDigit(c) == \E i \in 1..10 : Digits[i] = c
DigitVal(c) == (CHOOSE i \in 1..10 : Digits[i] = c) - 1

RECURSIVE ParseDigits(_)
ParseDigits(s) ==
    IF s = <<>> THEN 0
    ELSE 10 * ParseDigits(SubSeq(s, 1, Len(s) - 1)) + DigitVal(s[Len(s)])

IsIntLiteral(s) ==
    LET d == IF s # <<>> /\ s[1] = "-" THEN Tail(s) ELSE s
    IN  d # <<>> /\ \A i \in 1..Len(d) : IsDigit(d[i])

ParseInt(s) ==
    IF s[1] = "-" THEN 0 - ParseDigits(Tail(s)) ELSE ParseDigits(s)

S_inf == <<"i","n","f">>

\* pd.to_numeric(cell, errors="coerce"): a number, or NaN for what does not parse
ToNumeric(c) ==
    IF c.t = "int" THEN c
    ELSE IF c.t = "str" /\ IsIntLiteral(c.s) THEN IntCell(ParseInt(c.s))
    ELSE IF c.t = "str" /\ Lower(c.s) = S_inf THEN InfCell
    ELSE NaCell

\* .fillna(0)
FillNa0(c) == IF c.t = "na" THEN IntCell(0) ELSE c

\* pd.to_numeric(col, errors="coerce").fillna(0) on one cell
CoerceCell(c) == FillNa0(ToNumeric(c))

\* .astype(int) fails on a column that holds a non-finite value
AsTypeIntFails(rows, col) == \E i \in 1..Len(rows) : CoerceCell(rows[i][col]).t = "inf"

\* pd.to_numeric(df[col], errors="coerce").fillna(0).astype(int), where it succeeds
CoerceIntColumn(rows, col) ==
    [i \in 1..Len(rows) |-> [rows[i] EXCEPT ![col] = CoerceCell(rows[i][col])]]

-----------------------------------------------------------------------------
(* pa_data.py: the dataset loader.                                         *)

\* What statcast() hands back: None, or a frame of pitches.
NoneRaw == [none |-> TRUE, df |-> EmptyFrame]
Raw(df) == [none |-> FALSE, df |-> df]

HasEvent(r) == ~r.events.isna

\* fetch_statcast_pas
FetchStatcastPas(raw) ==
    IF raw.none \/ IsEmpty(raw.df) THEN Return("fetch_statcast_pas", EmptyFrame)
    ELSE IF "events" \notin raw.df.cols THEN Raise("fetch_statcast_pas", "KeyError")
    ELSE Return("fetch_statcast_pas",
                [cols |-> raw.df.cols, rows |-> SelectSeq(raw.df.rows, HasEvent)])

\* map_events_to_outcomes
MapEventsToOutcomes(df) ==
    [cols |-> df.cols \cup {"outcome"},
     rows |-> [i \in 1..Len(df.rows) |->
                  [df.rows[i] EXCEPT !.outcome = EventToOutcome(df.rows[i].events)]]]

\* the coercion loop of load_pa_dataset over one column
CoerceIfPresent(df, col) ==
    IF col \in df.cols THEN [df EXCEPT !.rows = CoerceIntColumn(df.rows, col)] ELSE df

\* load_pa_dataset once the plate appearances are fetched and not empty
LoadFetched(fetchedPas) ==
    The({ IF "balls" \in labelled.cols /\ AsTypeIntFails(labelled.rows, "balls")
          THEN Raise("load_pa_dataset", "IntCastingNaNError")
          ELSE IF "strikes" \in labelled.cols /\ AsTypeIntFails(labelled.rows, "strikes")
          THEN Raise("load_pa_dataset", "IntCastingNaNError")
          ELSE Return("load_pa_dataset",
                      CoerceIfPresent(CoerceIfPresent(labelled, "balls"), "strikes"))
          : labelled \in {MapEventsToOutcomes(fetchedPas)} })

\* load_pa_dataset
LoadPaDataset(raw) ==
    The({ IF got.kind = "raise" THEN Raise("load_pa_dataset", got.val)
          ELSE IF IsEmpty(got.val) THEN Return("load_pa_dataset", got.val)
          ELSE LoadFetched(got.val)
          : got \in {FetchStatcastPas(raw)} })

-----------------------------------------------------------------------------
(* Specification of the classifier on its own: one call per behaviour.     *)

Idle == /\ fetched = <<>>
        /\ lib = <<>>
        /\ args = <<>>
        /\ pas = <<>>
        /\ files = <<>>
        /\ opened = {}

InitClassifier ==
    /\ event \in EventInputs(MaxParts)
    /\ ret = NoCall
    /\ Idle

CallEventToOutcome ==
    /\ ret = NoCall
    /\ ret' = Return("_event_to_outcome", EventToOutcome(event))
    /\ UNCHANGED <<event, fetched, pas, files, args, lib, opened>>

NextClassifier == CallEventToOutcome

SpecClassifier == InitClassifier /\ [][NextClassifier]_vars

-----------------------------------------------------------------------------
(* pa_model.py: the rate aggregator.                                       *)

S_L == <<"L">>
S_R == <<"R">>

\* A frequency count / n as the exact fraction it stands for; 0.0 is 0/1.
Frac(c, n) == [num |-> c, den |-> n]
Zero == Frac(0, 1)

\* the count with the comparison turned around
CountOutcome_NotEqual(rows, o) == Cardinality({i \in 1..Len(rows) : rows[i].outcome # o})

\* (pas["outcome"] == outcome).sum()
CountOutcome(rows, o) == Cardinality({i \in 1..Len(rows) : rows[i].outcome = o})

\* the loop of league_rates_from_data over OUTCOME_ORDER
RatesOf(rows) ==
    LET n == Len(rows)
    IN  [o \in Outcomes |-> IF n # 0 THEN Frac(CountOutcome(rows, o), n) ELSE Zero]

\* `from pa_data import add_platoon_info`: pa_data.py defines no such name
AddPlatoonInfoImports == FALSE

\* league_rates_from_data on a frame that has its outcome column
LeagueRatesLabelled(labelled, platoon_filter) ==
    IF platoon_filter = "None"
    THEN Return("league_rates_from_data", RatesOf(labelled.rows))
    ELSE IF "platoon_matchup" \notin labelled.cols /\ ~AddPlatoonInfoImports
    THEN Raise("league_rates_from_data", "ImportError")
    ELSE LET Matches(r) == r.platoon_matchup = platoon_filter
         IN  The({ Return("league_rates_from_data", RatesOf(rows))
                   : rows \in {SelectSeq(labelled.rows, Matches)} })

\* league_rates_from_data; platoon_filter is "None", "same" or "opposite"
LeagueRatesFromData(df, platoon_filter) ==
    IF "outcome" \notin df.cols /\ "events" \notin df.cols
    THEN Raise("league_rates_from_data", "KeyError")
    ELSE IF "outcome" \notin df.cols
    THEN The({ LeagueRatesLabelled(labelled, platoon_filter)
               : labelled \in {MapEventsToOutcomes(df)} })
    ELSE LeagueRatesLabelled(df, platoon_filter)

-----------------------------------------------------------------------------
(* pa_model.py: the feature builder and the trainer.                       *)

RequiredColumns == {"balls", "strikes", "stand", "p_throws", "outcome"}

OptionalFeatures == <<"inning", "outs_when_up">>

\* feature_cols of build_features: the two fixed features, then the optional
\* columns the frame has, in the order of the loop
FeatureCols(df) ==
    LET Present(c) == c \in df.cols
    IN  <<"count_id", "platoon_same">> \o SelectSeq(OptionalFeatures, Present)

\* one feature of one row
FeatureValue(r, c) ==
    IF c = "count_id" THEN CoerceCell(r.balls).n * 4 + CoerceCell(r.strikes).n
    ELSE IF c = "platoon_same"
    THEN (IF ~r.stand.isna /\ ~r.p_throws.isna /\ Upper(r.stand.s) = Upper(r.p_throws.s)
          THEN 1 ELSE 0)
    ELSE CoerceCell(r[c]).n

\* build_features: (X, y), or the exception a missing column or a non-finite
\* count raises
BuildFeatures(df) ==
    IF ~(RequiredColumns \subseteq df.cols) THEN Raise("build_features", "KeyError")
    ELSE IF AsTypeIntFails(df.rows, "balls") \/ AsTypeIntFails(df.rows, "strikes")
    THEN Raise("build_features", "IntCastingNaNError")
    ELSE The({ Return("build_features",
                      [X |-> [columns |-> fc,
                              rows |-> [i \in 1..Len(df.rows) |->
                                          [j \in 1..Len(fc) |-> FeatureValue(df.rows[i], fc[j])]]],
                       y |-> [i \in 1..Len(df.rows) |-> df.rows[i].outcome]])
               : fc \in {FeatureCols(df)} })

\* The eight labels in the order np.unique sorts them (by code point).
SortedLabels == <<"Double", "HBP", "HR", "Out", "Single", "Strikeout", "Triple", "Walk">>

\* train_model without the mask
ValidRows_NoMask(xy) == xy

\* X[valid], y[valid] with valid = y.isin(OUTCOME_ORDER)
ValidRows(xy) ==
    LET Valid(i) == xy.y[i] \in Outcomes
    IN  The({ [X |-> [columns |-> xy.X.columns,
                      rows |-> [k \in 1..Len(idx) |-> xy.X.rows[idx[k]]]],
               y |-> [k \in 1..Len(idx) |-> xy.y[idx[k]]]]
              : idx \in {SelectSeq([i \in 1..Len(xy.y) |-> i], Valid)} })

\* LabelEncoder().fit(y).classes_
ClassesOf(y) ==
    LET Occurs(l) == \E i \in 1..Len(y) : y[i] = l
    IN  SelectSeq(SortedLabels, Occurs)

\* test_size = 0.2 of train_model, as the fraction 1/5
TestSizeNum == 1
TestSizeDen == 5

\* the holdout size train_test_split takes: ceil(test_size * n)
NTest(n) == (n * TestSizeNum + TestSizeDen - 1) \div TestSizeDen

\* train_test_split(..., stratify=y_enc) refuses a class with a single row and
\* a train or holdout part smaller than the number of classes
SplitFails(y) ==
    LET n == Len(y)
        k == Len(ClassesOf(y))
    IN  \/ n - NTest(n) = 0
        \/ \E l \in Outcomes : Cardinality({i \in 1..n : y[i] = l}) = 1
        \/ n - NTest(n) < k
        \/ NTest(n) < k

\* What train_model hands to train_test_split and, through it, to fit.
NoLibCall == [fn |-> "none", X |-> <<>>, y |-> <<>>]
LibCall(fn, X, y) == [fn |-> fn, X |-> X, y |-> y]

\* the part of train_model that follows the mask, on the valid rows v
TrainValid(v, allCorrect) ==
    IF Len(v.X.rows) = 0 \/ Len(v.y) = 0 THEN Raise("train_model", "ValueError")
    ELSE IF SplitFails(v.y) THEN Raise("train_model", "SplitValueError")
    ELSE The({ Return("train_model",
                      [clf |-> [n_classes_ |-> Len(classes),
                                feature_names_in_ |-> v.X.columns],
                       le |-> [classes_ |-> classes],
                       meta |-> [accuracy |-> Frac(IF allCorrect THEN NTest(Len(v.y)) ELSE 0,
                                                   NTest(Len(v.y))),
                                 classes |-> classes,
                                 feature_names |-> v.X.columns]])
               : classes \in {ClassesOf(v.y)} })

\* train_model: (clf, le, meta); the fitted classifier gets all of the holdout
\* rows right, or none of them
TrainModel(df, allCorrect) ==
    The({ IF built.kind = "raise" THEN Raise("train_model", built.val)
          ELSE The({ TrainValid(v, allCorrect) : v \in {ValidRows(built.val)} })
          : built \in {BuildFeatures(df)} })

\* the call of train_test_split that train_model makes, if it gets that far
TrainLibCall(df) ==
    The({ IF built.kind = "raise" THEN NoLibCall
          ELSE The({ IF Len(v.X.rows) = 0 \/ Len(v.y) = 0 THEN NoLibCall
                     ELSE LibCall("train_test_split", v.X, v.y)
                     : v \in {ValidRows(built.val)} })
          : built \in {BuildFeatures(df)} })

-----------------------------------------------------------------------------
(* Persisted files.  json.dump writes the mapping as its key/value pairs   *)
(* in insertion order and json.load rebuilds the mapping from the pairs;   *)
(* pickle.dump writes the object graph and pickle.load rebuilds it.        *)

AbsentFile == [exists |-> FALSE, data |-> <<>>]
FileOf(d) == [exists |-> TRUE, data |-> d]

FileNames == {"pa_outcome_rates.json", "pa_outcome_rates_same.json",
              "pa_outcome_rates_opposite.json", "pa_outcome_model.pkl",
              "pa_outcome_model_same.pkl", "pa_outcome_model_opposite.pkl"}

NoFiles == [f \in FileNames |-> AbsentFile]

\* json.dump(rates, f): rates was filled in the order of OUTCOME_ORDER
JsonDump(m) == [i \in 1..Len(OUTCOME_ORDER) |-> <<OUTCOME_ORDER[i], m[OUTCOME_ORDER[i]]>>]

\* json.load(f)
JsonLoad(text) ==
    [k \in {text[i][1] : i \in 1..Len(text)} |->
        text[CHOOSE i \in 1..Len(text) :
                /\ text[i][1] = k
                /\ \A j \in 1..Len(text) : text[j][1] = k => j <= i][2]]

\* pickle.dump({"clf": clf, "le": le, "meta": meta}, f)
PickleDump(obj) == <<"pickle", obj>>

\* pickle.load(f)
PickleLoad(bytes) == bytes[2]

-----------------------------------------------------------------------------
(* pa_model.py: outcome_probs_for_sim.                                     *)

DefaultInning == 5
DefaultOuts == 0

Min(a, b) == IF a <= b THEN a ELSE b

OneHot(n, k) == [i \in 1..n |-> IF i = k THEN Frac(1, 1) ELSE Zero]

\* dict(zip(keys, values))
DictZip(keys, values) ==
    LET n == Min(Len(keys), Len(values))
    IN  [c \in {keys[i] : i \in 1..n} |->
            values[CHOOSE i \in 1..n : keys[i] = c /\ \A j \in 1..n : keys[j] = c => j <= i]]

\* fnames: feature_names, or else the names the classifier recorded at fit
FNames(clf, feature_names) ==
    IF feature_names # <<>> THEN feature_names ELSE clf.feature_names_in_

\* outcome_probs_for_sim without `if "outs_when_up" in fnames`
InferenceFrame_NoOuts(count_id, platoon_same, fnames) ==
    LET rowKeys == {"count_id", "platoon_same"}
                     \cup (IF \E i \in 1..Len(fnames) : fnames[i] = "inning"
                           THEN {"inning"} ELSE {})
        InRow(c) == c \in rowKeys
        cols == SelectSeq(fnames, InRow)
        Value(c) == IF c = "count_id" THEN count_id
                    ELSE IF c = "platoon_same" THEN platoon_same
                    ELSE DefaultInning
    IN  [columns |-> cols, rows |-> << [j \in 1..Len(cols) |-> Value(cols[j])] >>]

\* the one-row frame X that outcome_probs_for_sim builds
InferenceFrame(count_id, platoon_same, fnames) ==
    LET rowKeys == {"count_id", "platoon_same"}
                     \cup (IF \E i \in 1..Len(fnames) : fnames[i] = "inning"
                           THEN {"inning"} ELSE {})
                     \cup (IF \E i \in 1..Len(fnames) : fnames[i] = "outs_when_up"
                           THEN {"outs_when_up"} ELSE {})
        InRow(c) == c \in rowKeys
        cols == SelectSeq(fnames, InRow)
        Value(c) == IF c = "count_id" THEN count_id
                    ELSE IF c = "platoon_same" THEN platoon_same
                    ELSE IF c = "inning" THEN DefaultInning
                    ELSE DefaultOuts
    IN  [columns |-> cols, rows |-> << [j \in 1..Len(cols) |-> Value(cols[j])] >>]

\* outcome_probs_for_sim; the classifier puts its whole weight on class k
OutcomeProbsForSim(clf, le, count_id, platoon_same, feature_names, k) ==
    The({ IF X.columns # clf.feature_names_in_
          THEN Raise("outcome_probs_for_sim", "ValueError")
          ELSE Return("outcome_probs_for_sim", DictZip(le.classes_, OneHot(clf.n_classes_, k)))
          : X \in {InferenceFrame(count_id, platoon_same, FNames(clf, feature_names))} })

-----------------------------------------------------------------------------
(* sim_rates.py: the probability server.                                   *)

\* load_league_rates
LoadLeagueRates(fs) ==
    IF ~fs["pa_outcome_rates.json"].exists
    THEN Raise("load_league_rates", "FileNotFoundError")
    ELSE Return("load_league_rates", JsonLoad(fs["pa_outcome_rates.json"].data))

\* load_outcome_model
LoadOutcomeModel(fs) ==
    IF ~fs["pa_outcome_model.pkl"].exists
    THEN Raise("load_outcome_model", "FileNotFoundError")
    ELSE Return("load_outcome_model", PickleLoad(fs["pa_outcome_model.pkl"].data))

\* the body of the try block of get_outcome_probs
TryModel(fs, count_balls, count_strikes, same_hand, k) ==
    The({ IF loaded.kind = "raise" THEN loaded
          ELSE The({ OutcomeProbsForSim(m.clf, m.le, count_balls * 4 + count_strikes,
                                        IF same_hand THEN 1 ELSE 0, m.meta.feature_names, k)
                     : m \in {loaded.val} })
          : loaded \in {LoadOutcomeModel(fs)} })

\* a try block without its except clause
Caught_Nothing(r) == FALSE

\* except FileNotFoundError
Caught(r) == r.kind = "raise" /\ r.val = "FileNotFoundError"

\* get_outcome_probs that tries the model whatever use_ml says
GetOutcomeProbs_IgnoresFlag(fs, count_balls, count_strikes, same_hand, use_ml, k) ==
    The({ IF r.kind = "raise" /\ r.val = "FileNotFoundError"
          THEN [LoadLeagueRates(fs) EXCEPT !.op = "get_outcome_probs"]
          ELSE [r EXCEPT !.op = "get_outcome_probs"]
          : r \in {TryModel(fs, count_balls, count_strikes, same_hand, k)} })

\* get_outcome_probs
GetOutcomeProbs(fs, count_balls, count_strikes, same_hand, use_ml, k) ==
    IF use_ml
    THEN The({ IF Caught(r) THEN [LoadLeagueRates(fs) EXCEPT !.op = "get_outcome_probs"]
               ELSE [r EXCEPT !.op = "get_outcome_probs"]
               : r \in {TryModel(fs, count_balls, count_strikes, same_hand, k)} })
    ELSE [LoadLeagueRates(fs) EXCEPT !.op = "get_outcome_probs"]

\* get_outcome_probs gets past load_outcome_model in its try block
TakesModelPath(fs, use_ml) == use_ml /\ LoadOutcomeModel(fs).kind = "return"

\* the files get_outcome_probs opens
GetOutcomeProbsOpens(fs, use_ml) ==
    IF TakesModelPath(fs, use_ml) THEN {"pa_outcome_model.pkl"}
    ELSE IF fs["pa_outcome_rates.json"].exists THEN {"pa_outcome_rates.json"}
    ELSE {}

\* what get_outcome_probs hands to the classifier
GetOutcomeProbsLibCall(fs, count_balls, count_strikes, same_hand, use_ml) ==
    IF TakesModelPath(fs, use_ml)
    THEN The({ LibCall("predict_proba",
                       InferenceFrame(count_balls * 4 + count_strikes,
                                      IF same_hand THEN 1 ELSE 0,
                                      FNames(m.clf, m.meta.feature_names)),
                       <<>>)
               : m \in {LoadOutcomeModel(fs).val} })
    ELSE NoLibCall

-----------------------------------------------------------------------------
(* pa_model.py: main().                                                    *)

MinPlatoonRows == 1000

WriteFile(fs, name, d) == [fs EXCEPT ![name] = FileOf(d)]

\* the platoon-specific rate files, written when the frame has the column
WritePlatoonRates(fs, df) ==
    IF "platoon_matchup" \notin df.cols THEN fs
    ELSE WriteFile(
           WriteFile(fs, "pa_outcome_rates_same.json",
                     JsonDump(LeagueRatesFromData(df, "same").val)),
           "pa_outcome_rates_opposite.json",
           JsonDump(LeagueRatesFromData(df, "opposite").val))

\* one round of the platoon-specific model loop: [ret, files]
PlatoonModel(st, df, matchup, allCorrect) ==
    LET Matches(r) == r.platoon_matchup = matchup
    IN  The({ IF st.ret.kind = "raise" \/ Len(sub.rows) < MinPlatoonRows THEN st
              ELSE The({ IF trained.kind = "raise"
                         THEN [ret |-> Raise("main", trained.val), files |-> st.files]
                         ELSE [ret |-> st.ret,
                               files |-> WriteFile(st.files,
                                                   IF matchup = "same"
                                                   THEN "pa_outcome_model_same.pkl"
                                                   ELSE "pa_outcome_model_opposite.pkl",
                                                   PickleDump(trained.val))]
                         : trained \in {TrainModel(sub, allCorrect)} })
              : sub \in {[cols |-> df.cols, rows |-> SelectSeq(df.rows, Matches)]} })

\* the end of main(), once the overall model is trained: save it, run the
\* platoon-specific loop, compute the example probabilities
MainSave(df, fs, trained, allCorrect) ==
    The({ The({ IF last.ret.kind = "return"
                   /\ OutcomeProbsForSim(trained.clf, trained.le, 0, 0,
                                         trained.meta.feature_names, 1).kind = "raise"
                THEN [ret |-> Raise("main", "ValueError"), files |-> last.files]
                ELSE last
                : last \in {IF "platoon_matchup" \notin df.cols THEN saved
                            ELSE The({ PlatoonModel(same, df, "opposite", allCorrect)
                                       : same \in {PlatoonModel(saved, df, "same", allCorrect)} })} })
          : saved \in {[ret |-> Return("main", "None"),
                        files |-> WriteFile(fs, "pa_outcome_model.pkl", PickleDump(trained))]} })

\* main() on a loaded frame that is not empty: the rate files, then the model
MainLoaded(df, fs, allCorrect) ==
    The({ The({ IF trained.kind = "raise"
                THEN [ret |-> Raise("main", trained.val), files |-> fs2]
                ELSE MainSave(df, fs2, trained.val, allCorrect)
                : trained \in {TrainModel(df, allCorrect)} })
          : fs2 \in {WritePlatoonRates(
                        WriteFile(fs, "pa_outcome_rates.json",
                                  JsonDump(LeagueRatesFromData(df, "None").val)), df)} })

\* main(): [ret, files], from what statcast() returns and the files there are
Main(raw, fs, allCorrect) ==
    The({ IF loaded.kind = "raise" THEN [ret |-> Raise("main", loaded.val), files |-> fs]
          ELSE IF IsEmpty(loaded.val) THEN [ret |-> Return("main", "None"), files |-> fs]
          ELSE The({ MainLoaded(df, fs, allCorrect) : df \in {loaded.val} })
          : loaded \in {LoadPaDataset(raw)} })

-----------------------------------------------------------------------------
(* Specification of the dataset loader: statcast() returns some frame of   *)
(* pitches and load_pa_dataset is called once on it.                       *)

SeqsUpTo(S, n) == UNION {[1..k -> S] : k \in 0..n}

BallCells ==
    { IntCell(0), IntCell(3), IntCell(0 - 1), NaCell,
      StrCell(<<"2">>), StrCell(<<"-","1">>), StrCell(<<"1","2">>),
      StrCell(<<"a","b","c">>), StrCell(<<>>), StrCell(S_inf) }

StrikeCells == { IntCell(2), IntCell(0 - 2), NaCell, StrCell(<<"x">>) }

LoaderColumnSets == { {"events"}, {"events", "balls"}, {"events", "balls", "strikes"} }

RawRows(cols) ==
    { [AbsentRow EXCEPT !.events = e, !.balls = b, !.strikes = s] :
        e \in {NA, Str(S_single)},
        b \in IF "balls" \in cols THEN BallCells ELSE {NaCell},
        s \in IF "strikes" \in cols THEN StrikeCells ELSE {NaCell} }

RawInputs(n) ==
    {NoneRaw} \cup
    UNION { {Raw([cols |-> c, rows |-> rs]) : rs \in SeqsUpTo(RawRows(c), n)} :
            c \in LoaderColumnSets }

InitLoader ==
    /\ fetched \in RawInputs(MaxRawRows)
    /\ event = NA
    /\ args = <<>>
    /\ pas = <<>>
    /\ files = <<>>
    /\ lib = <<>>
    /\ opened = {}
    /\ ret = NoCall

CallLoadPaDataset ==
    /\ ret = NoCall
    /\ ret' = LoadPaDataset(fetched)
    /\ pas' = IF ret'.kind = "return" THEN ret'.val ELSE pas
    /\ UNCHANGED <<event, fetched, files, args, lib, opened>>

NextLoader == CallLoadPaDataset

SpecLoader == InitLoader /\ [][NextLoader]_vars

-----------------------------------------------------------------------------
(* Claims about the event classifier.                                      *)

Classified == ret.op = "_event_to_outcome"

\* C1: the classifier returns Strikeout for "strikeout_double_play" and Out for
\* "field_error", "sac_fly" and "grounded_into_double_play".
C1_CorpusOutcomes ==
    (Classified /\ ret.kind = "return") =>
        /\ (event = Str(S_strikeout_double_play) => ret.val = "Strikeout")
        /\ (event = Str(S_field_error) => ret.val = "Out")
        /\ (event = Str(S_sac_fly) => ret.val = "Out")
        /\ (event = Str(S_grounded_into \o S_double_play) => ret.val = "Out")

\* The normalised event matches none of the classifier's rules.
MatchesNoRule(ev) ==
    LET e == Strip(Lower(ev.s))
    IN  /\ e \notin {S_walk, S_hit_by_pitch, S_single, S_double, S_triple, S_home_run}
        /\ ~Contains(e, S_double_play)
        /\ ~Contains(e, S_triple_play)
        /\ ~Contains(e, S_strikeout)

\* C2: on a string or a missing value the classifier returns, without failing,
\* one of the eight outcome categories; a missing value and every string that
\* matches none of the rules give Out.
C2_TotalIntoEight ==
    Classified =>
        /\ ret.kind = "return"
        /\ ret.val \in Outcomes
        /\ (event.isna => ret.val = "Out")
        /\ (~event.isna /\ MatchesNoRule(event) => ret.val = "Out")

C2_Witness ==
    /\ Classified
    /\ event = Str(S_field_out \o <<"x">>)
    /\ ret = Return("_event_to_outcome", "Out")

-----------------------------------------------------------------------------
(* Claims about the dataset loader.                                        *)

Loaded == ret.op = "load_pa_dataset"

NonNegativeInt(c) == c.t = "int" /\ c.n >= 0

\* C8: after load_pa_dataset every balls and strikes value is a non-negative
\* integer whatever the raw value was, and no raw value makes the call fail.
C8_CountsNonNegative ==
    Loaded =>
        /\ ret.kind = "return"
        /\ \A i \in 1..Len(ret.val.rows) :
              /\ ("balls" \in ret.val.cols => NonNegativeInt(ret.val.rows[i].balls))
              /\ ("strikes" \in ret.val.cols => NonNegativeInt(ret.val.rows[i].strikes))

-----------------------------------------------------------------------------
(* Specification of the rate aggregator: a caller holds a frame of plate   *)
(* appearances, labelled by map_events_to_outcomes or still unlabelled,    *)
(* and calls league_rates_from_data once.                                  *)

SameHand(r) ==
    /\ ~r.stand.isna
    /\ ~r.p_throws.isna
    /\ Upper(r.stand.s) = Upper(r.p_throws.s)

Matchup(r) == IF SameHand(r) THEN "same" ELSE "opposite"

RatesColumnSets ==
    { {"events", "stand", "p_throws"},
      {"events", "stand", "p_throws", "outcome"},
      {"events", "stand", "p_throws", "outcome", "platoon_matchup"} }

RatesEvents == {Str(S_single), Str(S_strikeout), Str(S_field_out)}

HandPairs == { <<Str(S_L), Str(S_R)>>, <<Str(S_R), Str(S_R)>> }

RatesRow(cols, e, h) ==
    LET r == [AbsentRow EXCEPT !.events = e, !.stand = h[1], !.p_throws = h[2]]
    IN  [r EXCEPT !.outcome = IF "outcome" \in cols THEN EventToOutcome(e) ELSE "",
                  !.platoon_matchup = IF "platoon_matchup" \in cols THEN Matchup(r) ELSE ""]

RatesFrames(n) ==
    {EmptyFrame} \cup
    UNION { {[cols |-> c, rows |-> rs] :
                rs \in SeqsUpTo({RatesRow(c, e, h) : e \in RatesEvents, h \in HandPairs}, n)} :
            c \in RatesColumnSets }

PlatoonFilters == {"None", "same", "opposite"}

InitRates ==
    /\ pas \in RatesFrames(MaxRows)
    /\ event = NA
    /\ fetched = <<>>
    /\ files = <<>>
    /\ args = <<>>
    /\ lib = <<>>
    /\ opened = {}
    /\ ret = NoCall

CallLeagueRates ==
    /\ ret = NoCall
    /\ \E f \in PlatoonFilters :
          /\ args' = [platoon_filter |-> f]
          /\ ret' = LeagueRatesFromData(pas, f)
    /\ UNCHANGED <<event, fetched, pas, files, lib, opened>>

NextRates == CallLeagueRates

SpecRates == InitRates /\ [][NextRates]_vars

-----------------------------------------------------------------------------
(* Claims about the rate aggregator.                                       *)

RatesCalled == ret.op = "league_rates_from_data"

AllZero(m) == \A o \in Outcomes : m[o] = Zero

\* The frame has rows of plate appearances and none of them is same-handed.
NoSameHandedRows(df) ==
    /\ "outcome" \in df.cols
    /\ Len(df.rows) > 0
    /\ \A i \in 1..Len(df.rows) : ~SameHand(df.rows[i])

\* C3: with platoon_filter "same" on a labelled frame without any same-handed
\* row, league_rates_from_data does not fail and returns 0.0 for each of the
\* eight categories.
C3_SameFilterAllZero ==
    (RatesCalled /\ args.platoon_filter = "same" /\ NoSameHandedRows(pas)) =>
        /\ ret.kind = "return"
        /\ AllZero(ret.val)

\* The frame is a labelled set: it has labels, or events to derive them from.
IsLabelledSet(df) == "outcome" \in df.cols \/ "events" \in df.cols

RECURSIVE SumCounts(_, _)
SumCounts(m, k) ==
    IF k = 0 THEN 0 ELSE m[OUTCOME_ORDER[k]].num + SumCounts(m, k - 1)

-----------------------------------------------------------------------------
(* Specification of training and serving: statcast() holds some pitches,   *)
(* main() is run on them, and the simulator queries get_outcome_probs.     *)

Repeat(base, k) == [i \in 1..(Len(base) * k) |-> base[((i - 1) % Len(base)) + 1]]

OptionalColumnSets == { {}, {"inning"}, {"outs_when_up"}, {"inning", "outs_when_up"} }

StatcastColumns == {"events", "balls", "strikes", "stand", "p_throws"}

PitchRow(cols, e, st, pt, b, s) ==
    [AbsentRow EXCEPT !.events = e, !.stand = st, !.p_throws = pt,
                      !.balls = IntCell(b), !.strikes = IntCell(s),
                      !.inning = IF "inning" \in cols THEN IntCell(1) ELSE NaCell,
                      !.outs_when_up = IF "outs_when_up" \in cols THEN IntCell(2) ELSE NaCell]

PitchRows(cols) ==
    { PitchRow(cols, Str(S_single), Str(S_L), Str(S_R), 0, 0),
      PitchRow(cols, Str(S_strikeout), Str(S_R), Str(S_R), 3, 2),
      PitchRow(cols, Str(S_field_out), Str(<<"l">>), Str(S_L), 1, 2) }

ServeRaw(n, copies) ==
    {NoneRaw} \cup
    UNION { {Raw([cols |-> StatcastColumns \cup oc, rows |-> Repeat(base, k)]) :
                base \in SeqsUpTo(PitchRows(StatcastColumns \cup oc), n),
                k \in {1, copies}} :
            oc \in OptionalColumnSets }

InitServe ==
    /\ fetched \in ServeRaw(MaxTrainRows, Copies)
    /\ files = NoFiles
    /\ event = NA
    /\ pas = <<>>
    /\ args = <<>>
    /\ lib = <<>>
    /\ opened = {}
    /\ ret = NoCall

RunMain ==
    /\ \E allCorrect \in BOOLEAN :
          \E out \in {Main(fetched, files, allCorrect)} :
              /\ ret' = out.ret
              /\ files' = out.files
    /\ args' = <<>>
    /\ lib' = <<>>
    /\ opened' = {}
    /\ UNCHANGED <<event, fetched, pas>>

QueryCounts == { <<0, 0>>, <<3, 2>> }

CallGetOutcomeProbs ==
    /\ \E c \in QueryCounts, h \in BOOLEAN, ml \in BOOLEAN :
          /\ args' = [count_balls |-> c[1], count_strikes |-> c[2], same_hand |-> h, use_ml |-> ml]
          /\ \E k \in 1..Len(OUTCOME_ORDER) :
                /\ IF TakesModelPath(files, ml)
                   THEN k <= LoadOutcomeModel(files).val.clf.n_classes_
                   ELSE k = 1
                /\ ret' = GetOutcomeProbs(files, c[1], c[2], h, ml, k)
          /\ opened' = GetOutcomeProbsOpens(files, ml)
          /\ lib' = GetOutcomeProbsLibCall(files, c[1], c[2], h, ml)
    /\ UNCHANGED <<event, fetched, pas, files>>

NextServe == RunMain \/ CallGetOutcomeProbs

SpecServe == InitServe /\ [][NextServe]_vars

-----------------------------------------------------------------------------
(* Specification of the trainer: a caller holds a frame of plate           *)
(* appearances with labels of its own, or what load_pa_dataset returned    *)
(* for a date range without plate appearances, and calls train_model once. *)

TrainLabels == {"Out", "Strikeout", "foul_tip", "NaN"}

TrainRow(cols, label, st) ==
    [AbsentRow EXCEPT !.stand = st, !.p_throws = Str(S_R),
                      !.balls = IntCell(3), !.strikes = IntCell(2),
                      !.outcome = label,
                      !.inning = IF "inning" \in cols THEN IntCell(1) ELSE NaCell,
                      !.outs_when_up = IF "outs_when_up" \in cols THEN IntCell(2) ELSE NaCell]

TrainColumnSets == { RequiredColumns, RequiredColumns \cup {"inning", "outs_when_up"} }

TrainFrames(n, copies) ==
    { EmptyFrame, [cols |-> StatcastColumns, rows |-> <<>>] } \cup
    UNION { {[cols |-> c, rows |-> Repeat(base, k)] :
                base \in SeqsUpTo({TrainRow(c, l, st) : l \in TrainLabels,
                                                         st \in {Str(S_L), Str(S_R)}}
                                     \cup {[TrainRow(c, "NaN", NA) EXCEPT !.balls = StrCell(S_inf)]},
                                  n),
                k \in {1, copies}} :
            c \in TrainColumnSets }

InitTrain ==
    /\ pas \in TrainFrames(MaxTrainRows, Copies)
    /\ event = NA
    /\ fetched = <<>>
    /\ files = <<>>
    /\ args = <<>>
    /\ lib = <<>>
    /\ opened = {}
    /\ ret = NoCall

CallTrainModel ==
    /\ ret = NoCall
    /\ \E allCorrect \in BOOLEAN : ret' = TrainModel(pas, allCorrect)
    /\ lib' = TrainLibCall(pas)
    /\ UNCHANGED <<event, fetched, pas, files, args, opened>>

NextTrain == CallTrainModel

SpecTrain == InitTrain /\ [][NextTrain]_vars

-----------------------------------------------------------------------------
(* Claims about the trainer.                                               *)

TrainCalled == ret.op = "train_model"

\* The frame is a set of plate appearance records: it has the columns of one,
\* and its counts are finite numbers.
IsRecordSet(df) ==
    /\ RequiredColumns \subseteq df.cols
    /\ ~AsTypeIntFails(df.rows, "balls")
    /\ ~AsTypeIntFails(df.rows, "strikes")

NoValidLabel(df) == \A i \in 1..Len(df.rows) : df.rows[i].outcome \notin Outcomes

NumValid(df) == Cardinality({i \in 1..Len(df.rows) : df.rows[i].outcome \in Outcomes})

\* C10 as stated: on any frame of which no row has one of the eight labels, the
\* frame without rows included, train_model raises the data-availability
\* ValueError before any split or fit.
C10_AnyFrameValueError ==
    (TrainCalled /\ NoValidLabel(pas)) =>
        /\ ret = Raise("train_model", "ValueError")
        /\ lib = NoLibCall

\* C10 (amended): on a frame that carries the balls, strikes, stand, p_throws
\* and outcome columns with finite counts, and of which no row has one of the
\* eight labels (such a frame without rows included), train_model raises the
\* data-availability ValueError before any split or fit and returns no model;
\* a row whose label is not one of the eight never reaches the split.
C10_NoValidRowsValueError ==
    (TrainCalled /\ IsRecordSet(pas)) =>
        /\ NoValidLabel(pas) =>
              /\ ret = Raise("train_model", "ValueError")
              /\ lib = NoLibCall
        /\ lib.fn = "train_test_split" =>
              /\ \A i \in 1..Len(lib.y) : lib.y[i] \in Outcomes
              /\ Len(lib.y) = NumValid(pas)
              /\ Len(lib.X.rows) = NumValid(pas)

C10_Witness ==
    /\ TrainCalled
    /\ IsRecordSet(pas)
    /\ Len(pas.rows) = MaxTrainRows
    /\ NoValidLabel(pas)
    /\ ret = Raise("train_model", "ValueError")
    /\ lib = NoLibCall

-----------------------------------------------------------------------------
(* Claims about the probability server.                                    *)

Queried == ret.op = "get_outcome_probs"

RatesFile == files["pa_outcome_rates.json"]
ModelFile == files["pa_outcome_model.pkl"]

\* C5: without a model artifact, get_outcome_probs with use_ml=True ends as it
\* does with use_ml=False on the same arguments: the mapping of the rate file
\* when there is one, FileNotFoundError for the rate file when there is none.
C5_FallbackSameAsRates ==
    (Queried /\ args.use_ml /\ ~ModelFile.exists) =>
        /\ ret = GetOutcomeProbs(files, args.count_balls, args.count_strikes,
                                 args.same_hand, FALSE, 1)
        /\ RatesFile.exists => ret = Return("get_outcome_probs", JsonLoad(RatesFile.data))
        /\ ~RatesFile.exists =>
              /\ ret = Raise("get_outcome_probs", "FileNotFoundError")
              /\ opened = {}
        /\ lib = NoLibCall

C5_Witness ==
    /\ Queried
    /\ args.use_ml
    /\ ~ModelFile.exists
    /\ RatesFile.exists
    /\ ret.kind = "return"
    /\ ret.val["Single"] = Frac(1, 1)

\* C6: with use_ml=False get_outcome_probs returns the mapping stored in the
\* rate file, whatever balls, strikes and same_hand are and whether or not
\* there is a model artifact; it does not open the model artifact and leaves
\* every persisted file as it was.
C6_RatesUnchanged ==
    [][ (ret'.op = "get_outcome_probs" /\ ~args'.use_ml) =>
           /\ files' = files
           /\ "pa_outcome_model.pkl" \notin opened'
           /\ lib' = NoLibCall
           /\ RatesFile.exists =>
                 /\ ret'.kind = "return"
                 /\ DOMAIN ret'.val = Outcomes
                 /\ \A i \in 1..Len(RatesFile.data) :
                       ret'.val[RatesFile.data[i][1]] = RatesFile.data[i][2] ]_vars

C6_Witness ==
    /\ Queried
    /\ ~args.use_ml
    /\ args.count_balls = 3
    /\ ModelFile.exists
    /\ ret.kind = "return"
    /\ ret.val["Strikeout"] = Frac(4, 12)
    /\ opened = {"pa_outcome_rates.json"}

\* C7: when the model is asked for and main() has persisted one, the mapping
\* get_outcome_probs returns has all eight outcome categories as its keys.
C7_AllEightKeys ==
    (Queried /\ args.use_ml /\ ModelFile.exists /\ ret.kind = "return") =>
        DOMAIN ret.val = Outcomes

ExpectedFeatureOrder(cols) ==
    <<"count_id", "platoon_same">>
        \o (IF "inning" \in cols THEN <<"inning">> ELSE <<>>)
        \o (IF "outs_when_up" \in cols THEN <<"outs_when_up">> ELSE <<>>)

\* C9: for every artifact main() persists, whichever of inning and outs_when_up
\* the training data had, the frame get_outcome_probs hands to the classifier
\* has the columns of the training matrix in the same order, the order recorded
\* in meta feature_names: count_id, platoon_same, then inning and outs_when_up
\* when present.
C9_SameFeatureOrder ==
    ModelFile.exists =>
        /\ PickleLoad(ModelFile.data).meta.feature_names = ExpectedFeatureOrder(fetched.df.cols)
        /\ PickleLoad(ModelFile.data).clf.feature_names_in_
              = PickleLoad(ModelFile.data).meta.feature_names
        /\ (Queried /\ args.use_ml) =>
              /\ lib.fn = "predict_proba"
              /\ lib.X.columns = PickleLoad(ModelFile.data).clf.feature_names_in_
              /\ ret.kind = "return"

C9_Witness ==
    /\ Queried
    /\ lib.fn = "predict_proba"
    /\ lib.X = [columns |-> <<"count_id", "platoon_same", "inning", "outs_when_up">>,
                rows |-> << <<14, 1, DefaultInning, DefaultOuts>> >>]
    /\ ret.kind = "return"

====
